---- MODULE Spec2Model ----
(***************************************************************************)
(* Model of Script/autofill_v3_heuristics.py: the V3 ethical-metadata      *)
(* auto-fill script.                                                       *)
(*                                                                         *)
(* Numbers with a fractional part (rates, confidences, random draws) are   *)
(* kept in thousandths: 0.15 is 150, a draw u in [0,1) is 0..999.          *)
(* A string is kept as the sequence of its "|"-separated parts, so that    *)
(* "A|B" is <<"A","B">>, "A" is <<"A">> and "" is <<>>; a string contains  *)
(* "|" exactly when it has more than one part.                             *)
(***************************************************************************)
EXTENDS Integers, Sequences, FiniteSets

(***************************************************************************)
(* Bounds of the model.                                                    *)
(***************************************************************************)
MaxRows == 2        \* rows of the input table: 0..MaxRows
StreamLen == 3      \* period of the modelled random.Random stream
MaxRuns == 2        \* invocations of the script in one behaviour

(***************************************************************************)
(* Cells.  An in-memory (DataFrame) cell is a record [t, s, n]:            *)
(*   t = "str"    a Python str, s its parts ("" is s = <<>>)               *)
(*   t = "nan"    the missing value pandas loads for an empty CSV cell     *)
(*   t = "int"    an integer n                                             *)
(*   t = "float"  a float, n in thousandths                                *)
(* A CSV file cell is a record of the same shape with                      *)
(*   t = "empty" | "text" | "int" | "float".                               *)
(***************************************************************************)
StrCell(parts) == [t |-> "str", s |-> parts, n |-> 0]
NanCell == [t |-> "nan", s |-> <<>>, n |-> 0]
IntCell(k) == [t |-> "int", s |-> <<>>, n |-> k]
FloatCell(k) == [t |-> "float", s |-> <<>>, n |-> k]
DigitsCell(k) == [t |-> "str", s |-> <<"#digits">>, n |-> k]

EmptyText == [t |-> "empty", s |-> <<>>, n |-> 0]
Text(parts) == [t |-> "text", s |-> parts, n |-> 0]
IntText(k) == [t |-> "int", s |-> <<>>, n |-> k]
FloatText(k) == [t |-> "float", s |-> <<>>, n |-> k]

BaseCols == {"image_id", "rel_path", "race_cat", "gender_cat", "age_cat", "split"}
DerivedCols ==
  {"race_ml", "skin_tone_bin", "cultural_markers", "ambiguous_mixed",
   "prefer_not_to_label", "unknown_uncertain", "conf_race", "conf_gender",
   "conf_skin", "annotation_notes"}

FF_CLASSES ==
  <<"White", "Black", "EastAsian", "SouthAsian", "SoutheastAsian",
    "MiddleEastern", "Latino">>

ADJACENT_PAIRS ==
  << <<"MiddleEastern", "SouthAsian">>,
     <<"EastAsian", "SoutheastAsian">>,
     <<"Latino", "White">>,
     <<"Latino", "MiddleEastern">>,
     <<"SouthAsian", "SoutheastAsian">> >>

\* Python's ordering of the strings the script sorts (code-point order).
AlphaOrder ==
  <<"Black", "EastAsian", "Latino", "MiddleEastern", "SouthAsian",
    "SoutheastAsian", "White", "beard", "none", "piercing_visible",
    "religious_headwear">>

Range(q) == {q[k] : k \in 1..Len(q)}
AlphaRank(x) == CHOOSE k \in 1..Len(AlphaOrder) : AlphaOrder[k] = x

\* sorted(p) of a 2-tuple
SortedPair(p) ==
  IF AlphaRank(p[1]) <= AlphaRank(p[2]) THEN p ELSE <<p[2], p[1]>>

\* [x for x in q if P(x)]
RECURSIVE SelectPairs(_, _)
SelectPairs(q, base) ==
  IF q = <<>> THEN <<>>
  ELSE LET rest == SelectPairs(Tail(q), base)
       IN IF base \in Range(Head(q)) THEN <<SortedPair(Head(q))>> \o rest ELSE rest

\* sorted(set(markers)) over the marker vocabulary
SortedSet(S) ==
  LET keep == SelectSeq(AlphaOrder, LAMBDA x : x \in S)
  IN keep

(***************************************************************************)
(* Command-line options (parse_args) and their defaults.                   *)
(***************************************************************************)
DefaultArgs ==
  [inp |-> "labels_v3.csv", outp |-> "labels_v3.csv", seed |-> 0,
   ambiguous_rate |-> 150, uncertain_rate |-> 100, prefer_not_rate |-> 10,
   hi_conf_range |-> <<800, 1000>>, mid_conf_range |-> <<550, 800>>,
   lo_conf_range |-> <<300, 550>>, lowconf_threshold |-> 600,
   skin_tone_method |-> "random", skin_bins |-> 7, marker_rate |-> 120,
   overwrite |-> FALSE, dry_run |-> FALSE]

\* urange("a,b") -> (float(a), float(b))
urange(s) == <<s[1], s[2]>>

(***************************************************************************)
(* The two seeded generators.  random.Random(seed) and numpy's global      *)
(* generator after np.random.seed(seed) are deterministic streams of the   *)
(* seed: the k-th draw is a function of (seed, k).  The seed's digits in   *)
(* base Len(DrawVals) are the stream, repeated with period StreamLen; the  *)
(* numpy stream reads the same digits in the opposite order.               *)
(***************************************************************************)
DrawVals == <<0, 999>>

RECURSIVE Pow(_, _)
Pow(b, e) == IF e = 0 THEN 1 ELSE b * Pow(b, e - 1)

Seeds == 0..(Pow(Len(DrawVals), StreamLen) - 1)

Digit(seed, k) == (seed \div Pow(Len(DrawVals), k)) % Len(DrawVals)

\* rng.random() at stream position pos
Random(seed, pos) == DrawVals[Digit(seed, pos % StreamLen) + 1]

\* np.random's uniform sample at stream position pos
NpRandom(seed, pos) == DrawVals[Digit(seed, (StreamLen - 1) - (pos % StreamLen)) + 1]

\* a generator that is not re-seeded: it goes on where it was
NewRandomUnseeded(prev) == prev

\* random.Random(args.seed): a fresh generator at the start of its stream
NewRandom(prev) == 0

\* np.random.seed(args.seed): the global numpy generator restarted
NpSeed(prev) == 0

\* round(x, 3) of x = num / 1000 thousandths
Round3(num) == (2 * num + 1000) \div 2000

\* round(rng.uniform(a, b), 3) = round(a + (b - a) * random(), 3)
Uniform(seed, pos, a, b) == Round3(1000 * a + (b - a) * Random(seed, pos))

\* rng.choice(seq): an index of seq
Choice(seed, pos, seq) == seq[((Random(seed, pos) * Len(seq)) \div 1000) + 1]

(***************************************************************************)
(* Blank test and conversions of cells.                                    *)
(***************************************************************************)
\* str(v): the parts of the string Python prints for the cell
PyStr(v) ==
  IF v.t = "str" THEN v.s
  ELSE IF v.t = "nan" THEN <<"nan">>
  ELSE <<"#digits">>

\* str(v).strip() == ""
IsBlank(v) == PyStr(v) = <<>>

\* "|" in s
HasPipe(parts) == Len(parts) > 1

\* v == 1
EqOne(v) == (v.t = "int" /\ v.n = 1) \/ (v.t = "float" /\ v.n = 1000)

\* the gate of every field: args.overwrite or the input cell is blank
ShouldFillOneOff(col, overwrite, v) ==
  IF col = "prefer_not_to_label" THEN TRUE ELSE overwrite \/ IsBlank(v)
ShouldFillRaceMlBlankOnly(col, overwrite, v) ==
  IF col = "race_ml" THEN IsBlank(v) ELSE overwrite \/ IsBlank(v)
ShouldFill(col, overwrite, v) == overwrite \/ IsBlank(v)

\* float(v) where v is not blank: [nan, v]
ToFloat(v) ==
  IF v.t = "int" THEN [nan |-> FALSE, v |-> 1000 * v.n]
  ELSE IF v.t = "float" THEN [nan |-> FALSE, v |-> v.n]
  ELSE [nan |-> TRUE, v |-> 0]

\* pd.read_csv of one cell
ReadCell(c) ==
  IF c.t = "empty" THEN NanCell
  ELSE IF c.t = "text" THEN StrCell(c.s)
  ELSE IF c.t = "int" THEN IntCell(c.n)
  ELSE FloatCell(c.n)

\* DataFrame.to_csv of one cell
WriteCell(v) ==
  IF v.t = "nan" THEN EmptyText
  ELSE IF v.t = "int" THEN IntText(v.n)
  ELSE IF v.t = "float" THEN FloatText(v.n)
  ELSE IF v.s = <<>> THEN EmptyText
  ELSE IF v.s = <<"#digits">> THEN IntText(v.n)
  ELSE Text(v.s)

\* x.lower() for the gender strings of the model
Lower(x) == IF x = "Male" THEN "male" ELSE IF x = "Female" THEN "female" ELSE x

Parts(x) == IF x = "" THEN <<>> ELSE <<x>>

(***************************************************************************)
(* Input tables.  A CSV file is [cols, rows]: the columns of its header    *)
(* and its rows; a row holds race_cat and gender_cat as strings, rel_path,  *)
(* one column the script does not know (extra) and the derived columns (d) *)
(* as file cells.  The image files on disk are given by ImageLuma: the     *)
(* mean luminance (0..255) of the central crop of a decodable image, -1    *)
(* for a file that is missing or does not decode.                          *)
(***************************************************************************)
NoFile == [cols |-> {}, rows |-> <<>>, exists |-> FALSE]

\* a directory that exists
Directory == [cols |-> {}, rows |-> <<>>, exists |-> TRUE]

ImageLuma(path) ==
  IF path = "img/bright.jpg" THEN 255
  ELSE IF path = "img/dark.jpg" THEN 40
  ELSE IF path = "img/black.jpg" THEN 0
  ELSE IF path = "img/grey.jpg" THEN 128
  ELSE IF path = "img/tiny.jpg" THEN 200
  ELSE -1

\* im.size of a decodable image: <<w, h>>
ImageSize(path) == IF path = "img/tiny.jpg" THEN <<8, 40>> ELSE <<64, 64>>

ImagePaths ==
  {"img/bright.jpg", "img/dark.jpg", "img/black.jpg", "img/grey.jpg",
   "img/tiny.jpg", "img/broken.jpg"}

RowKinds ==
  << [race_cat |-> "Black", gender_cat |-> "Male",
       rel_path |-> Text(<<"img/bright.jpg">>), extra |-> Text(<<"studio">>)],
     [race_cat |-> "MiddleEastern", gender_cat |-> "female",
       rel_path |-> Text(<<"img/broken.jpg">>), extra |-> EmptyText],
     [race_cat |-> "Indian", gender_cat |-> "nonbinary",
       rel_path |-> EmptyText, extra |-> Text(<<"street">>)] >>

\* the input tables: up to MaxRows rows, all of one kind or of kinds in turn
Tables ==
  {[j \in 1..k |-> RowKinds[((a - 1 + (j - 1) * step) % Len(RowKinds)) + 1]] :
     k \in 0..MaxRows, a \in 1..Len(RowKinds), step \in {0, 1}}

\* values a derived column may already hold in the input table
Prefills ==
  { <<"race_ml", Text(<<"Latino", "White">>)>>,
    <<"race_ml", Text(<<"Black">>)>>,
    <<"ambiguous_mixed", IntText(0)>>,
    <<"ambiguous_mixed", IntText(1)>>,
    <<"prefer_not_to_label", IntText(1)>>,
    <<"conf_race", FloatText(400)>>,
    <<"conf_race", FloatText(900)>>,
    <<"unknown_uncertain", IntText(0)>>,
    <<"cultural_markers", Text(<<"none">>)>>,
    <<"skin_tone_bin", IntText(4)>>,
    <<"conf_skin", FloatText(700)>>,
    <<"conf_gender", FloatText(900)>>,
    <<"annotation_notes", Text(<<"manual review">>)>> }

\* the shapes of the derived columns of an input table: all absent from the
\* header, all present with empty cells, or one present and filled
Shapes ==
  {[kind |-> "absent", col |-> "", val |-> EmptyText],
   [kind |-> "empty", col |-> "", val |-> EmptyText]}
  \cup {[kind |-> "prefill", col |-> p[1], val |-> p[2]] : p \in Prefills}

AbsentShape == [kind |-> "absent", col |-> "", val |-> EmptyText]
MissingShape == [kind |-> "missing", col |-> "", val |-> EmptyText]

MakeFile(table, shape) ==
  IF shape.kind = "missing" THEN NoFile ELSE
  [cols |-> BaseCols \cup {"extra"}
            \cup (IF shape.kind = "absent" THEN {}
                           ELSE IF shape.kind = "empty" THEN DerivedCols
                           ELSE {shape.col}),
   rows |-> [k \in 1..Len(table) |->
               [race_cat |-> table[k].race_cat,
                gender_cat |-> table[k].gender_cat,
                rel_path |-> table[k].rel_path,
                extra |-> table[k].extra,
                d |-> [c \in DerivedCols |->
                         IF shape.kind = "prefill" /\ c = shape.col
                         THEN shape.val ELSE EmptyText]]],
   exists |-> TRUE]

\* the environment of a run: whether PIL imports, whether the output path
\* can be written
DefaultEnv == [PIL_OK |-> TRUE, writable |-> TRUE]

\* option sets that differ from the defaults
ArgVariants ==
  { [DefaultArgs EXCEPT !.overwrite = TRUE],
    [DefaultArgs EXCEPT !.dry_run = TRUE],
    [DefaultArgs EXCEPT !.dry_run = TRUE, !.outp = "out/labels_v3.csv"],
    [DefaultArgs EXCEPT !.outp = "out/labels_v3.csv"],
    [DefaultArgs EXCEPT !.ambiguous_rate = 1000],
    [DefaultArgs EXCEPT !.uncertain_rate = 0],
    [DefaultArgs EXCEPT !.prefer_not_rate = 1000],
    [DefaultArgs EXCEPT !.marker_rate = 1000],
    [DefaultArgs EXCEPT !.skin_bins = 3],
    [DefaultArgs EXCEPT !.skin_tone_method = "brightness"],
    [DefaultArgs EXCEPT !.skin_tone_method = "brightness", !.skin_bins = 3],
    [DefaultArgs EXCEPT !.hi_conf_range = <<800, 1500>>] }

\* the columns whose prefilled tables are also run in overwrite mode
OverwriteCols == {"", "race_ml", "ambiguous_mixed", "prefer_not_to_label", "skin_tone_bin"}

\* (options, environment, shape of the input table) of a run
Scenarios ==
  {<<DefaultArgs, DefaultEnv, sh>> : sh \in Shapes}
  \cup {<<[DefaultArgs EXCEPT !.overwrite = TRUE], DefaultEnv, sh>> :
          sh \in {x \in Shapes : x.col \in OverwriteCols}}
  \cup {<<a, DefaultEnv, AbsentShape>> : a \in ArgVariants}
  \cup {<<[DefaultArgs EXCEPT !.skin_tone_method = "brightness"],
          [DefaultEnv EXCEPT !.PIL_OK = FALSE], AbsentShape>>,
        <<DefaultArgs, [DefaultEnv EXCEPT !.writable = FALSE], AbsentShape>>,
        <<DefaultArgs, DefaultEnv, MissingShape>>}

\* the paths of the file system: the two tables and the directory of the
\* second
Paths == {DefaultArgs.inp, "out/labels_v3.csv", "out"}

(***************************************************************************)
(* State.                                                                  *)
(***************************************************************************)
VARIABLES
  args,       \* the parsed options
  env,        \* PIL_OK and whether the output path is writable
  files,      \* the file system, by path
  pc,         \* position in the script
  run,        \* number of the current invocation
  df,         \* the DataFrame: a sequence of rows
  i,          \* index of the row the loop is at
  row,        \* the row iterrows handed to the loop body
  ml,         \* local ml
  rngPos,     \* draws taken so far from rng
  npPos,      \* draws taken so far from numpy's global generator
  filled,     \* per row, the derived columns this run has written
  binBy,      \* per row, what produced bin_val: "none", "brightness", "random"
  stdout,     \* what the run has printed
  exitCode,   \* exit status of the run; -1 while it runs
  curIn,      \* the table this run read (NoFile before it has)
  curOut,     \* the table this run wrote (NoFile if it has written none)
  prevIn,     \* the table the previous run read
  prevOut,    \* the table the previous run wrote
  call,       \* the call of a helper function under study: its name and arguments
  ret         \* what that call returned

vars ==
  <<args, env, files, pc, run, df, i, row, ml, rngPos, npPos, filled, binBy,
    stdout, exitCode, curIn, curOut, prevIn, prevOut, call, ret>>

\* no helper is called on its own, nothing has returned
NoCall == [fn |-> "none"]
NoRet == [done |-> FALSE]

NoRow ==
  [race_cat |-> "", gender_cat |-> "", rel_path |-> NanCell, extra |-> NanCell,
   d |-> [c \in DerivedCols |-> NanCell]]

\* the state of a process that has just started
Fresh ==
  /\ df = <<>>
  /\ i = 0
  /\ row = NoRow
  /\ ml = <<>>
  /\ rngPos = 0
  /\ npPos = 0
  /\ filled = <<>>
  /\ binBy = <<>>
  /\ stdout = {}
  /\ exitCode = -1

InitWorld ==
  /\ \E sc \in Scenarios, seed \in Seeds, tb \in Tables :
       /\ args = [sc[1] EXCEPT !.seed = seed]
       /\ env = sc[2]
       /\ files = [p \in Paths |->
                     IF p = DefaultArgs.inp THEN MakeFile(tb, sc[3]) ELSE NoFile]
  /\ run = 1
  /\ curIn = NoFile
  /\ curOut = NoFile
  /\ prevIn = NoFile
  /\ prevOut = NoFile
  /\ call = NoCall
  /\ ret = NoRet
  /\ Fresh

\* the pass (the first definition of main, lines 109-296) run directly
Init == InitWorld /\ pc = "parse_args"

(***************************************************************************)
(* The pure parts of the per-row heuristics.  Each takes the position of   *)
(* the generator it draws from and returns the value with the position     *)
(* after its draws.                                                        *)
(***************************************************************************)
\* choose_multilabel emitting the sorted pair itself instead of base|neighbor
choose_multilabel_pair(seed, pos, base_label, ambiguous_rate) ==
  IF base_label \notin Range(FF_CLASSES)
  THEN [ml |-> Parts(base_label), pos |-> pos]
  ELSE LET candidates == SelectPairs(ADJACENT_PAIRS, base_label)
       IN IF candidates = <<>>
          THEN [ml |-> <<base_label>>, pos |-> pos]
          ELSE IF Random(seed, pos) < ambiguous_rate
          THEN [ml |-> Choice(seed, pos + 1, candidates), pos |-> pos + 2]
          ELSE [ml |-> <<base_label>>, pos |-> pos + 1]

\* choose_multilabel(rng, base_label, ambiguous_rate)
choose_multilabel(seed, pos, base_label, ambiguous_rate) ==
  IF base_label \notin Range(FF_CLASSES)
  THEN [ml |-> Parts(base_label), pos |-> pos]
  ELSE LET candidates == SelectPairs(ADJACENT_PAIRS, base_label)
       IN IF candidates = <<>>
          THEN [ml |-> <<base_label>>, pos |-> pos]
          ELSE IF Random(seed, pos) < ambiguous_rate
          THEN LET pair == Choice(seed, pos + 1, candidates)
                   other == IF pair[1] = base_label THEN pair[2] ELSE pair[1]
               IN [ml |-> <<base_label, other>>, pos |-> pos + 2]
          ELSE [ml |-> <<base_label>>, pos |-> pos + 1]

Min(a, b) == IF a <= b THEN a ELSE b
Max(a, b) == IF a >= b THEN a ELSE b

\* brightness_to_bin without the clip to [1, bins]
brightness_to_bin_unclipped(pil_ok, img_path, bins) ==
  IF ~pil_ok THEN 0
  ELSE IF ImageLuma(img_path) < 0 THEN 0
  ELSE IF ImageSize(img_path)[1] < 10 \/ ImageSize(img_path)[2] < 10 THEN 0
  ELSE ((ImageLuma(img_path) * bins) \div 255) + 1

\* brightness_to_bin(img_path, bins): a bin, or 0 for None
brightness_to_bin(pil_ok, img_path, bins) ==
  IF ~pil_ok THEN 0
  ELSE IF ImageLuma(img_path) < 0 THEN 0
  ELSE IF ImageSize(img_path)[1] < 10 \/ ImageSize(img_path)[2] < 10 THEN 0
  ELSE Min(Max(((ImageLuma(img_path) * bins) \div 255) + 1, 1), bins)

\* the weights of the random strategy for a race (in hundredths for the two
\* hard-coded rows, all 1 for the uniform fallback [1/N]*N)
SkinWeights(base_race, skin_bins) ==
  IF base_race = "Black" THEN <<25, 22, 18, 14, 10, 7, 4>>
  ELSE IF base_race = "White" THEN <<4, 7, 10, 14, 18, 22, 25>>
  ELSE [k \in 1..skin_bins |-> 1]

RECURSIVE SumSeq(_)
SumSeq(q) == IF q = <<>> THEN 0 ELSE Head(q) + SumSeq(Tail(q))

\* np.random.choice(choices, p = weights / sum(weights)) for the uniform
\* sample u: the first bin whose cumulative weight exceeds u
NpChoice(weights, u) ==
  CHOOSE k \in 1..Len(weights) :
    /\ 1000 * SumSeq(SubSeq(weights, 1, k)) > u * SumSeq(weights)
    /\ \A j \in 1..(k - 1) :
         1000 * SumSeq(SubSeq(weights, 1, j)) <= u * SumSeq(weights)

\* np.random.choice raises ValueError unless a is non-empty and p has a's size
NpChoiceRaises(choices_len, weights) ==
  choices_len = 0 \/ Len(weights) # choices_len

\* the cultural markers joined in the order they were appended, unsorted
CulturalMarkersUnsorted(seed, pos, base_race, gender_cat, marker_rate) ==
  LET hw_try == base_race \in {"MiddleEastern", "SouthAsian"}
      hw == hw_try /\ Random(seed, pos) < marker_rate
      p1 == IF hw_try THEN pos + 1 ELSE pos
      beard_try == Lower(gender_cat) \in {"male", "m"}
      beard == beard_try /\ Random(seed, p1) < marker_rate
      p2 == IF beard_try THEN p1 + 1 ELSE p1
      pierce == 2 * Random(seed, p2) < marker_rate
      found == (IF hw THEN <<"religious_headwear">> ELSE <<>>)
               \o (IF beard THEN <<"beard">> ELSE <<>>)
               \o (IF pierce THEN <<"piercing_visible">> ELSE <<>>)
  IN [markers |-> IF found = <<>> THEN <<"none">> ELSE found, pos |-> p2 + 1]

\* the cultural markers with the headwear trigger tried for every race
CulturalMarkersAnyRace(seed, pos, base_race, gender_cat, marker_rate) ==
  LET hw == Random(seed, pos) < marker_rate
      p1 == pos + 1
      beard_try == Lower(gender_cat) \in {"male", "m"}
      beard == beard_try /\ Random(seed, p1) < marker_rate
      p2 == IF beard_try THEN p1 + 1 ELSE p1
      pierce == 2 * Random(seed, p2) < marker_rate
      found == (IF hw THEN {"religious_headwear"} ELSE {})
               \cup (IF beard THEN {"beard"} ELSE {})
               \cup (IF pierce THEN {"piercing_visible"} ELSE {})
  IN [markers |-> SortedSet(IF found = {} THEN {"none"} ELSE found),
      pos |-> p2 + 1]

\* the cultural markers of a row: [markers, pos]
CulturalMarkers(seed, pos, base_race, gender_cat, marker_rate) ==
  LET hw_try == base_race \in {"MiddleEastern", "SouthAsian"}
      hw == hw_try /\ Random(seed, pos) < marker_rate
      p1 == IF hw_try THEN pos + 1 ELSE pos
      beard_try == Lower(gender_cat) \in {"male", "m"}
      beard == beard_try /\ Random(seed, p1) < marker_rate
      p2 == IF beard_try THEN p1 + 1 ELSE p1
      \* rng.random() < marker_rate / 2
      pierce == 2 * Random(seed, p2) < marker_rate
      found == (IF hw THEN {"religious_headwear"} ELSE {})
               \cup (IF beard THEN {"beard"} ELSE {})
               \cup (IF pierce THEN {"piercing_visible"} ELSE {})
  IN [markers |-> SortedSet(IF found = {} THEN {"none"} ELSE found),
      pos |-> p2 + 1]

\* conf for conf_race with the multi-label test ahead of the preference test
RaceConfidenceMultiFirst(seed, pos, prefer, multi, a) ==
  LET lo == urange(a.lo_conf_range)
      mid == urange(a.mid_conf_range)
      hi == urange(a.hi_conf_range)
  IN IF multi
     THEN [conf |-> Uniform(seed, pos, mid[1], mid[2]), pos |-> pos + 1]
     ELSE IF prefer
     THEN [conf |-> Uniform(seed, pos, lo[1], lo[2]), pos |-> pos + 1]
     ELSE IF Random(seed, pos) > a.uncertain_rate
     THEN [conf |-> Uniform(seed, pos + 1, hi[1], hi[2]), pos |-> pos + 2]
     ELSE [conf |-> Uniform(seed, pos + 1, lo[1], lo[2]), pos |-> pos + 2]

\* conf for conf_race: [conf, pos]
RaceConfidence(seed, pos, prefer, multi, a) ==
  LET lo == urange(a.lo_conf_range)
      mid == urange(a.mid_conf_range)
      hi == urange(a.hi_conf_range)
  IN IF prefer
     THEN [conf |-> Uniform(seed, pos, lo[1], lo[2]), pos |-> pos + 1]
     ELSE IF multi
     THEN [conf |-> Uniform(seed, pos, mid[1], mid[2]), pos |-> pos + 1]
     ELSE IF Random(seed, pos) > a.uncertain_rate
     THEN [conf |-> Uniform(seed, pos + 1, hi[1], hi[2]), pos |-> pos + 2]
     ELSE [conf |-> Uniform(seed, pos + 1, lo[1], lo[2]), pos |-> pos + 2]

(***************************************************************************)
(* The pass: the first definition of main (lines 109-296), one action per  *)
(* step.                                                                   *)
(***************************************************************************)
\* an exception nobody catches: traceback on stderr, exit status 1
Raise(exc) ==
  /\ pc' = "exit"
  /\ exitCode' = 1
  /\ stdout' = stdout \cup {"Traceback", exc}

\* df.at[i, col] = v
SetCell(col, v) ==
  /\ df' = [df EXCEPT ![i].d[col] = v]
  /\ filled' = [filled EXCEPT ![i] = @ \cup {col}]

Gate(col) == ShouldFill(col, args.overwrite, row.d[col])

\* lines 110-116
ParseArgs ==
  /\ pc = "parse_args"
  /\ rngPos' = NewRandom(rngPos)
  /\ npPos' = NpSeed(npPos)
  /\ pc' = "read_csv"
  /\ UNCHANGED <<args, env, files, run, df, i, row, ml, filled, binBy, stdout,
                 exitCode, curIn, curOut, prevIn, prevOut>>
  /\ UNCHANGED <<call, ret>>

\* pd.read_csv and safe_col over one row of the file
LoadRow(file, r) ==
  [race_cat |-> r.race_cat, gender_cat |-> r.gender_cat,
   rel_path |-> ReadCell(r.rel_path), extra |-> ReadCell(r.extra),
   d |-> [c \in DerivedCols |->
            IF c \in file.cols THEN ReadCell(r.d[c]) ELSE StrCell(<<>>)]]

\* lines 118-137
ReadCsv ==
  /\ pc = "read_csv"
  /\ IF ~files[args.inp].exists
     THEN /\ Raise("FileNotFoundError")
          /\ UNCHANGED <<df, filled, binBy, curIn, prevIn, prevOut>>
     ELSE /\ df' = [k \in 1..Len(files[args.inp].rows) |->
                      LoadRow(files[args.inp], files[args.inp].rows[k])]
          /\ filled' = [k \in 1..Len(files[args.inp].rows) |-> {}]
          /\ binBy' = [k \in 1..Len(files[args.inp].rows) |-> "none"]
          /\ curIn' = files[args.inp]
          /\ pc' = "iterrows"
          /\ UNCHANGED <<stdout, exitCode>>
  /\ UNCHANGED <<args, env, files, run, i, row, ml, rngPos, npPos, curOut, prevIn, prevOut>>
  /\ UNCHANGED <<call, ret>>

\* the loop left after its first row
IterRowsFirstOnly ==
  /\ pc = "iterrows"
  /\ IF i < Len(df) /\ i < 1
     THEN /\ i' = i + 1
          /\ row' = df[i + 1]
          /\ pc' = "race_ml"
     ELSE /\ pc' = "summary"
          /\ UNCHANGED <<i, row>>
  /\ UNCHANGED <<args, env, files, run, df, ml, rngPos, npPos, filled, binBy,
                 stdout, exitCode, curIn, curOut, prevIn, prevOut>>
  /\ UNCHANGED <<call, ret>>

\* line 139: for i, row in df.iterrows()
IterRows ==
  /\ pc = "iterrows"
  /\ IF i < Len(df)
     THEN /\ i' = i + 1
          /\ row' = df[i + 1]
          /\ pc' = "race_ml"
     ELSE /\ pc' = "summary"
          /\ UNCHANGED <<i, row>>
  /\ UNCHANGED <<args, env, files, run, df, ml, rngPos, npPos, filled, binBy,
                 stdout, exitCode, curIn, curOut, prevIn, prevOut>>
  /\ UNCHANGED <<call, ret>>

\* lines 140-147
FillRaceMl ==
  /\ pc = "race_ml"
  /\ IF Gate("race_ml")
     THEN LET r == choose_multilabel(args.seed, rngPos, row.race_cat,
                                     args.ambiguous_rate)
          IN /\ ml' = r.ml
             /\ SetCell("race_ml", StrCell(r.ml))
             /\ rngPos' = r.pos
     ELSE /\ ml' = PyStr(row.d["race_ml"])
          /\ UNCHANGED <<df, filled, rngPos>>
  /\ pc' = "ambiguous_mixed"
  /\ UNCHANGED <<args, env, files, run, i, row, npPos, binBy, stdout, exitCode,
                 curIn, curOut, prevIn, prevOut>>
  /\ UNCHANGED <<call, ret>>

\* lines 149-152
FillAmbiguousMixed ==
  /\ pc = "ambiguous_mixed"
  /\ IF Gate("ambiguous_mixed")
     THEN SetCell("ambiguous_mixed", IntCell(IF HasPipe(ml) THEN 1 ELSE 0))
     ELSE UNCHANGED <<df, filled>>
  /\ pc' = "prefer_not_to_label"
  /\ UNCHANGED <<args, env, files, run, i, row, ml, rngPos, npPos, binBy, stdout,
                 exitCode, curIn, curOut, prevIn, prevOut>>
  /\ UNCHANGED <<call, ret>>

\* the preference flag drawn from numpy's global generator instead of rng
FillPreferNotToLabelNp ==
  /\ pc = "prefer_not_to_label"
  /\ IF Gate("prefer_not_to_label")
     THEN /\ SetCell("prefer_not_to_label",
                     IntCell(IF NpRandom(args.seed, npPos) < args.prefer_not_rate
                             THEN 1 ELSE 0))
          /\ npPos' = npPos + 1
     ELSE UNCHANGED <<df, filled, npPos>>
  /\ pc' = "conf_race"
  /\ UNCHANGED <<args, env, files, run, i, row, ml, rngPos, binBy, stdout,
                 exitCode, curIn, curOut, prevIn, prevOut>>
  /\ UNCHANGED <<call, ret>>

\* lines 154-157
FillPreferNotToLabel ==
  /\ pc = "prefer_not_to_label"
  /\ IF Gate("prefer_not_to_label")
     THEN /\ SetCell("prefer_not_to_label",
                     IntCell(IF Random(args.seed, rngPos) < args.prefer_not_rate
                             THEN 1 ELSE 0))
          /\ rngPos' = rngPos + 1
     ELSE UNCHANGED <<df, filled, rngPos>>
  /\ pc' = "conf_race"
  /\ UNCHANGED <<args, env, files, run, i, row, ml, npPos, binBy, stdout,
                 exitCode, curIn, curOut, prevIn, prevOut>>
  /\ UNCHANGED <<call, ret>>

\* lines 159-171
FillConfRace ==
  /\ pc = "conf_race"
  /\ IF Gate("conf_race")
     THEN LET r == RaceConfidence(args.seed, rngPos,
                                  EqOne(df[i].d["prefer_not_to_label"]),
                                  HasPipe(ml), args)
          IN /\ SetCell("conf_race", FloatCell(r.conf))
             /\ rngPos' = r.pos
     ELSE UNCHANGED <<df, filled, rngPos>>
  /\ pc' = "unknown_uncertain"
  /\ UNCHANGED <<args, env, files, run, i, row, ml, npPos, binBy, stdout,
                 exitCode, curIn, curOut, prevIn, prevOut>>
  /\ UNCHANGED <<call, ret>>

\* line 172: conf_val, [nan, v]; float() of a non-numeric string raises
ConfValRaises(v) == v.t = "str" /\ ~IsBlank(v)
ConfVal(v) == IF IsBlank(v) THEN [nan |-> FALSE, v |-> 500] ELSE ToFloat(v)

\* the uncertainty flag set by the draw alone, without the threshold test
FillUnknownUncertainDrawOnly ==
  /\ pc = "unknown_uncertain"
  /\ IF ConfValRaises(df[i].d["conf_race"])
     THEN /\ Raise("ValueError: float")
          /\ UNCHANGED <<df, filled, rngPos>>
     ELSE /\ IF Gate("unknown_uncertain")
             THEN /\ SetCell("unknown_uncertain",
                             IntCell(IF Random(args.seed, rngPos)
                                          < args.uncertain_rate
                                     THEN 1 ELSE 0))
                  /\ rngPos' = rngPos + 1
             ELSE UNCHANGED <<df, filled, rngPos>>
          /\ pc' = "cultural_markers"
          /\ UNCHANGED <<stdout, exitCode>>
  /\ UNCHANGED <<args, env, files, run, i, row, ml, npPos, binBy, curIn, curOut, prevIn, prevOut>>
  /\ UNCHANGED <<call, ret>>

\* lines 172-177
FillUnknownUncertain ==
  /\ pc = "unknown_uncertain"
  /\ IF ConfValRaises(df[i].d["conf_race"])
     THEN /\ Raise("ValueError: float")
          /\ UNCHANGED <<df, filled, rngPos>>
     ELSE /\ IF Gate("unknown_uncertain")
             THEN LET conf_val == ConfVal(df[i].d["conf_race"])
                      low == ~conf_val.nan /\ conf_val.v < args.lowconf_threshold
                  IN IF low
                     THEN /\ SetCell("unknown_uncertain", IntCell(1))
                          /\ UNCHANGED rngPos
                     ELSE /\ SetCell("unknown_uncertain",
                                     IntCell(IF Random(args.seed, rngPos)
                                                  < args.uncertain_rate
                                             THEN 1 ELSE 0))
                          /\ rngPos' = rngPos + 1
             ELSE UNCHANGED <<df, filled, rngPos>>
          /\ pc' = "cultural_markers"
          /\ UNCHANGED <<stdout, exitCode>>
  /\ UNCHANGED <<args, env, files, run, i, row, ml, npPos, binBy, curIn, curOut, prevIn, prevOut>>
  /\ UNCHANGED <<call, ret>>

\* lines 179-192
FillCulturalMarkers ==
  /\ pc = "cultural_markers"
  /\ IF Gate("cultural_markers")
     THEN LET r == CulturalMarkers(args.seed, rngPos, row.race_cat,
                                   row.gender_cat, args.marker_rate)
          IN /\ SetCell("cultural_markers", StrCell(r.markers))
             /\ rngPos' = r.pos
     ELSE UNCHANGED <<df, filled, rngPos>>
  /\ pc' = "skin_tone_bin"
  /\ UNCHANGED <<args, env, files, run, i, row, ml, npPos, binBy, stdout,
                 exitCode, curIn, curOut, prevIn, prevOut>>
  /\ UNCHANGED <<call, ret>>

\* line 197: the test that sends the row to the brightness strategy
TriesBrightness ==
  args.skin_tone_method = "brightness" /\ env.PIL_OK /\ ~IsBlank(row.rel_path)

\* line 198: Path(v) raises TypeError unless v is a str (NaN is a float)
PathRaises(v) == v.t # "str"

\* lines 196-206: bin_val of the brightness strategy, 0 for None
BrightnessBin ==
  IF TriesBrightness
  THEN brightness_to_bin(env.PIL_OK, row.rel_path.s[1], args.skin_bins)
  ELSE 0

\* lines 194-217
FillSkinToneBin ==
  /\ pc = "skin_tone_bin"
  /\ IF ~Gate("skin_tone_bin")
     THEN /\ pc' = "conf_skin"
          /\ UNCHANGED <<df, filled, npPos, binBy, stdout, exitCode>>
     ELSE IF TriesBrightness /\ PathRaises(row.rel_path)
     THEN /\ Raise("TypeError: Path")
          /\ UNCHANGED <<df, filled, npPos, binBy>>
     ELSE IF BrightnessBin # 0
     THEN /\ SetCell("skin_tone_bin", DigitsCell(BrightnessBin))
          /\ binBy' = [binBy EXCEPT ![i] = "brightness"]
          /\ pc' = "conf_skin"
          /\ UNCHANGED <<npPos, stdout, exitCode>>
     ELSE LET weights == SkinWeights(row.race_cat, args.skin_bins)
          IN IF NpChoiceRaises(args.skin_bins, weights)
             THEN /\ Raise("ValueError: np.random.choice")
                  /\ UNCHANGED <<df, filled, npPos, binBy>>
             ELSE /\ SetCell("skin_tone_bin",
                             DigitsCell(NpChoice(weights,
                                                 NpRandom(args.seed, npPos))))
                  /\ npPos' = npPos + 1
                  /\ binBy' = [binBy EXCEPT ![i] = "random"]
                  /\ pc' = "conf_skin"
                  /\ UNCHANGED <<stdout, exitCode>>
  /\ UNCHANGED <<args, env, files, run, i, row, ml, rngPos, curIn, curOut, prevIn, prevOut>>
  /\ UNCHANGED <<call, ret>>

\* line 222: the test that picks the higher range for conf_skin
SkinHighRange(method, pil_ok, bin_cell) ==
  method = "brightness" /\ pil_ok /\ ~(bin_cell \in {StrCell(<<>>), StrCell(<<"Unknown">>)})

\* lines 219-226
FillConfSkin ==
  /\ pc = "conf_skin"
  /\ IF Gate("conf_skin")
     THEN /\ SetCell("conf_skin",
                     FloatCell(IF SkinHighRange(args.skin_tone_method, env.PIL_OK,
                                                df[i].d["skin_tone_bin"])
                               THEN Uniform(args.seed, rngPos, 600, 900)
                               ELSE Uniform(args.seed, rngPos, 500, 800)))
          /\ rngPos' = rngPos + 1
     ELSE UNCHANGED <<df, filled, rngPos>>
  /\ pc' = "conf_gender"
  /\ UNCHANGED <<args, env, files, run, i, row, ml, npPos, binBy, stdout,
                 exitCode, curIn, curOut, prevIn, prevOut>>
  /\ UNCHANGED <<call, ret>>

\* lines 228-235
FillConfGender ==
  /\ pc = "conf_gender"
  /\ IF Gate("conf_gender")
     THEN /\ SetCell("conf_gender",
                     FloatCell(IF Lower(row.gender_cat) \in {"male", "m", "female", "f"}
                               THEN Uniform(args.seed, rngPos, 800, 1000)
                               ELSE Uniform(args.seed, rngPos, 400, 700)))
          /\ rngPos' = rngPos + 1
     ELSE UNCHANGED <<df, filled, rngPos>>
  /\ pc' = "annotation_notes"
  /\ UNCHANGED <<args, env, files, run, i, row, ml, npPos, binBy, stdout,
                 exitCode, curIn, curOut, prevIn, prevOut>>
  /\ UNCHANGED <<call, ret>>

\* the notes with the preference marker ahead of the other two
NotesPreferFirst(multi, unknown, prefer) ==
  (IF prefer THEN <<"auto: prefer-not-to-label set">> ELSE <<>>)
  \o (IF multi THEN <<"auto: multi-heritage heuristic">> ELSE <<>>)
  \o (IF unknown THEN <<"auto: low confidence / uncertain">> ELSE <<>>)

\* lines 239-246: the notes, kept as the sequence of the "; "-joined markers
Notes(multi, unknown, prefer) ==
  (IF multi THEN <<"auto: multi-heritage heuristic">> ELSE <<>>)
  \o (IF unknown THEN <<"auto: low confidence / uncertain">> ELSE <<>>)
  \o (IF prefer THEN <<"auto: prefer-not-to-label set">> ELSE <<>>)

\* lines 237-248
FillAnnotationNotes ==
  /\ pc = "annotation_notes"
  /\ IF Gate("annotation_notes")
     THEN SetCell("annotation_notes",
                  StrCell(Notes(HasPipe(ml), EqOne(df[i].d["unknown_uncertain"]),
                                EqOne(df[i].d["prefer_not_to_label"]))))
     ELSE UNCHANGED <<df, filled>>
  /\ pc' = "iterrows"
  /\ UNCHANGED <<args, env, files, run, i, row, ml, rngPos, npPos, binBy, stdout,
                 exitCode, curIn, curOut, prevIn, prevOut>>
  /\ UNCHANGED <<call, ret>>

\* lines 250-271: the tally divides by n = len(df)
Summary ==
  /\ pc = "summary"
  /\ IF Len(df) = 0
     THEN /\ pc' = "exit"
          /\ exitCode' = 1
          /\ stdout' = stdout \cup {"AUTO-FILL SUMMARY", "Traceback", "ZeroDivisionError"}
     ELSE /\ pc' = "save"
          /\ stdout' = stdout \cup {"AUTO-FILL SUMMARY", "ETHICAL METADATA STATISTICS"}
          /\ UNCHANGED exitCode
  /\ UNCHANGED <<args, env, files, run, df, i, row, ml, rngPos, npPos, filled,
                 binBy, curIn, curOut, prevIn, prevOut>>
  /\ UNCHANGED <<call, ret>>

\* to_csv after the rows with a missing rel_path have been dropped
ToCsvDropNa(frame) ==
  LET kept == SelectSeq(frame, LAMBDA r : r.rel_path.t # "nan")
  IN [cols |-> BaseCols \cup {"extra"} \cup DerivedCols,
      rows |-> [k \in 1..Len(kept) |->
                  [race_cat |-> kept[k].race_cat,
                   gender_cat |-> kept[k].gender_cat,
                   rel_path |-> WriteCell(kept[k].rel_path),
                   extra |-> WriteCell(kept[k].extra),
                   d |-> [c \in DerivedCols |-> WriteCell(kept[k].d[c])]]],
      exists |-> TRUE]

\* df.to_csv(outp, index=False)
ToCsv(frame) ==
  [cols |-> BaseCols \cup {"extra"} \cup DerivedCols,
   rows |-> [k \in 1..Len(frame) |->
               [race_cat |-> frame[k].race_cat,
                gender_cat |-> frame[k].gender_cat,
                rel_path |-> WriteCell(frame[k].rel_path),
                extra |-> WriteCell(frame[k].extra),
                d |-> [c \in DerivedCols |-> WriteCell(frame[k].d[c])]]],
   exists |-> TRUE]

\* Path(p).parent for the paths of the model
Parent(p) == IF p = "out/labels_v3.csv" THEN "out" ELSE "."

\* line 282: outp.parent.mkdir(parents=True, exist_ok=True); "." exists
Mkdir(fs, d) == IF d \in DOMAIN fs THEN [fs EXCEPT ![d] = Directory] ELSE fs

\* the save step without the dry-run test
SaveIgnoringDryRun ==
  /\ pc = "save"
  /\ pc' = "exit"
  /\ IF env.writable
     THEN /\ files' = [Mkdir(files, Parent(args.outp)) EXCEPT ![args.outp] = ToCsv(df)]
          /\ stdout' = stdout \cup {"SUCCESS!"}
          /\ exitCode' = 0
          /\ curOut' = ToCsv(df)
     ELSE /\ files' = Mkdir(files, Parent(args.outp))
          /\ stdout' = stdout \cup {"Error saving file"}
          /\ exitCode' = 1
          /\ curOut' = NoFile
  /\ UNCHANGED <<args, env, run, df, i, row, ml, rngPos, npPos, filled, binBy, curIn, prevIn, prevOut>>
  /\ UNCHANGED <<call, ret>>

\* lines 273-296
Save ==
  /\ pc = "save"
  /\ pc' = "exit"
  /\ IF args.dry_run
     THEN /\ stdout' = stdout \cup {"DRY RUN MODE - NO FILES WRITTEN"}
          /\ exitCode' = 0
          /\ curOut' = NoFile
          /\ UNCHANGED files
     ELSE IF env.writable
     THEN /\ files' = [Mkdir(files, Parent(args.outp)) EXCEPT ![args.outp] = ToCsv(df)]
          /\ stdout' = stdout \cup {"SUCCESS!"}
          /\ exitCode' = 0
          /\ curOut' = ToCsv(df)
     ELSE /\ files' = Mkdir(files, Parent(args.outp))
          /\ stdout' = stdout \cup {"Error saving file"}
          /\ exitCode' = 1
          /\ curOut' = NoFile
  /\ UNCHANGED <<args, env, run, df, i, row, ml, rngPos, npPos, filled, binBy, curIn, prevIn, prevOut>>
  /\ UNCHANGED <<call, ret>>

\* the script is invoked again with the same command line
Rerun ==
  /\ pc = "exit"
  /\ run < MaxRuns
  /\ run' = run + 1
  /\ pc' = "parse_args"
  /\ df' = <<>>
  /\ i' = 0
  /\ row' = NoRow
  /\ ml' = <<>>
  /\ filled' = <<>>
  /\ binBy' = <<>>
  /\ stdout' = {}
  /\ exitCode' = -1
  /\ prevIn' = curIn
  /\ prevOut' = curOut
  /\ curIn' = NoFile
  /\ curOut' = NoFile
  /\ UNCHANGED <<args, env, files, rngPos, npPos>>
  /\ UNCHANGED <<call, ret>>

Next ==
  \/ ParseArgs
  \/ ReadCsv
  \/ IterRows
  \/ FillRaceMl
  \/ FillAmbiguousMixed
  \/ FillPreferNotToLabel
  \/ FillConfRace
  \/ FillUnknownUncertain
  \/ FillCulturalMarkers
  \/ FillSkinToneBin
  \/ FillConfSkin
  \/ FillConfGender
  \/ FillAnnotationNotes
  \/ Summary
  \/ Save
  \/ Rerun

Spec == Init /\ [][Next]_vars

(***************************************************************************)
(* The entry point.  The module defines main twice; the second definition  *)
(* (line 298) replaces the first, and it is the one line 327 calls.        *)
(***************************************************************************)
\* the names bound at module level when line 327 runs
ModuleGlobals ==
  {"parse_args", "urange", "safe_col", "choose_multilabel", "brightness_to_bin",
   "main", "generate_v3_metadata", "PIL_OK", "FF_CLASSES", "ADJACENT_PAIRS"}

\* lines 298-302: main calls parse_args, then generate_v3_metadata
EntryMain ==
  /\ pc = "main"
  /\ pc' = "generate_v3_metadata"
  /\ UNCHANGED <<args, env, files, run, df, i, row, ml, rngPos, npPos, filled,
                 binBy, stdout, exitCode, curIn, curOut, prevIn, prevOut>>
  /\ UNCHANGED <<call, ret>>

\* lines 310-324: the banner, the existence test, the call of main_logic
GenerateV3Metadata ==
  /\ pc = "generate_v3_metadata"
  /\ IF ~files[args.inp].exists
     THEN /\ pc' = "except"
          /\ stdout' = stdout \cup {"V3 ETHICAL METADATA GENERATOR", "FileNotFoundError"}
     ELSE IF "main_logic" \in ModuleGlobals
     THEN /\ pc' = "parse_args"
          /\ stdout' = stdout \cup {"V3 ETHICAL METADATA GENERATOR"}
     ELSE /\ pc' = "except"
          /\ stdout' = stdout \cup {"V3 ETHICAL METADATA GENERATOR", "NameError"}
  /\ UNCHANGED <<args, env, files, run, df, i, row, ml, rngPos, npPos, filled,
                 binBy, exitCode, curIn, curOut, prevIn, prevOut>>
  /\ UNCHANGED <<call, ret>>

\* the handler printing the error without sys.exit(1)
ExceptHandlerNoExit ==
  /\ pc = "except"
  /\ pc' = "exit"
  /\ stdout' = stdout \cup {"Error"}
  /\ exitCode' = 0
  /\ UNCHANGED <<args, env, files, run, df, i, row, ml, rngPos, npPos, filled,
                 binBy, curIn, curOut, prevIn, prevOut>>
  /\ UNCHANGED <<call, ret>>

\* lines 306-308: except Exception: print the error, sys.exit(1)
ExceptHandler ==
  /\ pc = "except"
  /\ pc' = "exit"
  /\ stdout' = stdout \cup {"Error"}
  /\ exitCode' = 1
  /\ UNCHANGED <<args, env, files, run, df, i, row, ml, rngPos, npPos, filled,
                 binBy, curIn, curOut, prevIn, prevOut>>
  /\ UNCHANGED <<call, ret>>

\* the script run from its entry point (line 327)
InitEntry == InitWorld /\ pc = "main"

NextEntry ==
  \/ EntryMain
  \/ GenerateV3Metadata
  \/ ExceptHandler

SpecEntry == InitEntry /\ [][NextEntry]_vars

(***************************************************************************)
(* The helper functions called on their own: one call, with arguments from *)
(* bounded sets, and its return value.                                     *)
(***************************************************************************)
\* the base labels and rates choose_multilabel is called with
BaseLabels == Range(FF_CLASSES) \cup {"Indian", ""}
AmbiguousRates == {0, 150, 1000}

\* choose_multilabel(rng, base_label, ambiguous_rate), rng at (seed, pos)
ChooseCalls ==
  {[fn |-> "choose_multilabel", seed |-> sd, pos |-> p, base_label |-> b,
    ambiguous_rate |-> r] :
     sd \in Seeds, p \in 0..(StreamLen - 1), b \in BaseLabels, r \in AmbiguousRates}

\* brightness_to_bin(img_path, bins), with PIL importable or not
MaxBins == 8
BrightnessCalls ==
  {[fn |-> "brightness_to_bin", pil_ok |-> ok, img_path |-> path, bins |-> b] :
     ok \in BOOLEAN, path \in ImagePaths, b \in 1..MaxBins}

\* compare_manual_vs_heuristic.py, lines 22-33: the loop over
\* zip(manual, heuristic), <<agreements, total>>; setwise tells whether
\* multi-label values are also compared as sets
RECURSIVE AgreementLoop(_, _, _)
AgreementLoop(manual, heuristic, setwise) ==
  IF manual = <<>> \/ heuristic = <<>> THEN <<0, 0>>
  ELSE LET m == Head(manual)
           h == Head(heuristic)
           rest == AgreementLoop(Tail(manual), Tail(heuristic), setwise)
       IN IF m.t # "nan" /\ h.t # "nan"
          THEN IF m = h
               THEN <<rest[1] + 1, rest[2] + 1>>
               ELSE IF setwise /\ HasPipe(PyStr(m)) /\ HasPipe(PyStr(h))
                       /\ Range(PyStr(m)) = Range(PyStr(h))
               THEN <<rest[1] + 1, rest[2] + 1>>
               ELSE <<rest[1], rest[2] + 1>>
          ELSE rest

\* calculate_agreement comparing the race labels as strings only
calculate_agreement_exact(manual, heuristic, column) ==
  LET c == AgreementLoop(manual, heuristic, FALSE)
  IN IF c[2] > 0 THEN [num |-> c[1], den |-> c[2]] ELSE [num |-> 0, den |-> 1]

\* compare_manual_vs_heuristic.py, lines 16-40: calculate_agreement(manual,
\* heuristic, column), the rate as the fraction num / den; for a column other
\* than race_ml (lines 35-40) the rate is that of the exact matches among the
\* pairs with both values present
calculate_agreement(manual, heuristic, column) ==
  LET c == AgreementLoop(manual, heuristic, column = "race_ml")
  IN IF c[2] > 0 THEN [num |-> c[1], den |-> c[2]] ELSE [num |-> 0, den |-> 1]

\* the values of a compared column, and the columns of up to MaxPairs values
MaxPairs == 2
AgreementValues ==
  {NanCell, StrCell(<<"A">>), StrCell(<<"A", "B">>), StrCell(<<"B", "A">>),
   StrCell(<<"A", "C">>), StrCell(<<"A", "A", "B">>)}
AgreementCols ==
  UNION {[1..n -> AgreementValues] : n \in 0..MaxPairs}

\* calculate_agreement(manual, heuristic, column): race_ml is compared over
\* lists of any two lengths, another column as Series of one length
IsAgreementCall(c) ==
  \E m \in AgreementCols, h \in AgreementCols,
     col \in {"race_ml", "ambiguous_mixed"} :
    /\ col = "race_ml" \/ Len(m) = Len(h)
    /\ c = [fn |-> "calculate_agreement", manual |-> m, heuristic |-> h,
            column |-> col]

InitFn ==
  /\ \/ call \in ChooseCalls
     \/ call \in BrightnessCalls
     \/ IsAgreementCall(call)
  /\ ret = NoRet
  /\ pc = "call"
  /\ args = DefaultArgs
  /\ env = DefaultEnv
  /\ files = [p \in Paths |-> NoFile]
  /\ run = 1
  /\ curIn = NoFile
  /\ curOut = NoFile
  /\ prevIn = NoFile
  /\ prevOut = NoFile
  /\ Fresh

\* lines 75-87
CallChooseMultilabel ==
  /\ pc = "call"
  /\ call.fn = "choose_multilabel"
  /\ LET r == choose_multilabel(call.seed, call.pos, call.base_label,
                                 call.ambiguous_rate)
     IN ret' = [done |-> TRUE, v |-> r.ml, pos |-> r.pos]
  /\ pc' = "return"
  /\ UNCHANGED <<args, env, files, run, df, i, row, ml, rngPos, npPos, filled,
                 binBy, stdout, exitCode, curIn, curOut, prevIn, prevOut, call>>

\* lines 89-107
CallBrightnessToBin ==
  /\ pc = "call"
  /\ call.fn = "brightness_to_bin"
  /\ ret' = [done |-> TRUE,
             v |-> brightness_to_bin(call.pil_ok, call.img_path, call.bins)]
  /\ pc' = "return"
  /\ UNCHANGED <<args, env, files, run, df, i, row, ml, rngPos, npPos, filled,
                 binBy, stdout, exitCode, curIn, curOut, prevIn, prevOut, call>>

\* compare_manual_vs_heuristic.py, lines 16-40
CallCalculateAgreement ==
  /\ pc = "call"
  /\ call.fn = "calculate_agreement"
  /\ ret' = [done |-> TRUE,
             v |-> calculate_agreement(call.manual, call.heuristic, call.column)]
  /\ pc' = "return"
  /\ UNCHANGED <<args, env, files, run, df, i, row, ml, rngPos, npPos, filled,
                 binBy, stdout, exitCode, curIn, curOut, prevIn, prevOut, call>>

NextFn ==
  \/ CallChooseMultilabel
  \/ CallBrightnessToBin
  \/ CallCalculateAgreement

SpecFn == InitFn /\ [][NextFn]_vars

(***************************************************************************)
(* Properties.                                                             *)
(***************************************************************************)
\* the table the current run loaded, and its cells as pandas loaded them
Loaded == curIn
InputCell(k, c) == LoadRow(Loaded, Loaded.rows[k]).d[c]
FieldSteps ==
  {"race_ml", "ambiguous_mixed", "prefer_not_to_label", "conf_race",
   "unknown_uncertain", "cultural_markers", "skin_tone_bin", "conf_skin",
   "conf_gender", "annotation_notes"}
Populated(v) == v.t # "nan" /\ ~IsBlank(v)

\* C1: run from its entry point on an existing, readable input table with a
\* valid configuration, the script runs the pass, prints the summary and exits
\* with status 0.
C1_EntrySucceeds ==
  (pc = "exit" /\ files[args.inp].exists /\ Len(files[args.inp].rows) > 0
     /\ env.writable /\ args.skin_bins = 7)
  => (exitCode = 0 /\ "AUTO-FILL SUMMARY" \in stdout)

\* C2 (as claimed): with ambiguous-rate 1.0, a MiddleEastern row whose race_ml
\* the pass fills always gets "MiddleEastern|SouthAsian".
C2_OnlySouthAsian ==
  \A k \in 1..Len(df) :
    (args.ambiguous_rate = 1000 /\ df[k].race_cat = "MiddleEastern"
       /\ "race_ml" \in filled[k])
    => df[k].d["race_ml"] = StrCell(<<"MiddleEastern", "SouthAsian">>)

\* C2 (amended): with ambiguous-rate 1.0, a MiddleEastern row whose race_ml the
\* pass fills always gets a two-label value, "MiddleEastern|SouthAsian" or
\* "MiddleEastern|Latino": MiddleEastern has two adjacent categories.
C2_SouthAsianOrLatino ==
  \A k \in 1..Len(df) :
    (args.ambiguous_rate = 1000 /\ df[k].race_cat = "MiddleEastern"
       /\ "race_ml" \in filled[k])
    => df[k].d["race_ml"] \in {StrCell(<<"MiddleEastern", "SouthAsian">>),
                               StrCell(<<"MiddleEastern", "Latino">>)}

C2_Witness ==
  \E k \in 1..Len(df) :
    /\ args.ambiguous_rate = 1000
    /\ df[k].race_cat = "MiddleEastern"
    /\ "race_ml" \in filled[k]
    /\ df[k].d["race_ml"] = StrCell(<<"MiddleEastern", "Latino">>)

\* C3: after a completed pass, for every row whose input already agreed on it,
\* ambiguous_mixed = 1 if and only if race_ml contains "|".
C3_AmbiguousIffPipe ==
  (pc = "exit" /\ exitCode = 0 /\ Len(df) > 0)
  => \A k \in 1..Len(df) :
       (EqOne(InputCell(k, "ambiguous_mixed"))
          <=> HasPipe(PyStr(InputCell(k, "race_ml"))))
       => (EqOne(df[k].d["ambiguous_mixed"])
             <=> HasPipe(PyStr(df[k].d["race_ml"])))

\* C4: for every number of bins N >= 1 and every race_cat the skin-tone step
\* raises no error, and every skin_tone_bin the pass writes is in 1..N.
C4_SkinBinInRange ==
  args.skin_bins >= 1
  => /\ "ValueError: np.random.choice" \notin stdout
     /\ \A k \in 1..Len(df) :
          "skin_tone_bin" \in filled[k]
          => df[k].d["skin_tone_bin"].n \in 1..args.skin_bins

\* C5: after a completed pass in fill-blanks mode, the nine derived fields of
\* every row are populated, whether their cells were empty in the CSV or their
\* columns absent from it.
C5_EmptyCellsFilled ==
  (pc = "exit" /\ exitCode = 0 /\ ~args.overwrite /\ Len(df) > 0)
  => \A k \in 1..Len(df) :
       \A c \in DerivedCols \ {"annotation_notes"} : Populated(df[k].d[c])

\* C6: in fill-blanks mode a derived field that was not blank when the pass
\* started keeps its value, in the DataFrame at every step and in the file
\* the pass writes.
C6_NonBlankKept ==
  (~args.overwrite /\ Len(df) > 0)
  => \A k \in 1..Len(df) : \A c \in DerivedCols :
       /\ ~IsBlank(InputCell(k, c)) => df[k].d[c] = InputCell(k, c)
       /\ (pc = "exit" /\ exitCode = 0 /\ ~args.dry_run
             /\ c \in Loaded.cols /\ Loaded.rows[k].d[c] # EmptyText)
          => files[args.outp].rows[k].d[c] = Loaded.rows[k].d[c]

C6_Witness ==
  /\ ~args.overwrite
  /\ pc = "exit"
  /\ exitCode = 0
  /\ \E k \in 1..Len(df) :
       /\ \E c \in DerivedCols : Populated(InputCell(k, c))
       /\ \E c \in DerivedCols : c \in filled[k]

\* C7: a fill-blanks run whose input is the table a previous run wrote leaves
\* the table as it was: what it writes equals what it read.
C7_Idempotent ==
  (run > 1 /\ pc = "exit" /\ exitCode = 0 /\ ~args.overwrite /\ ~args.dry_run
     /\ args.outp = args.inp /\ prevOut # NoFile)
  => /\ files[args.outp] = curIn
     /\ curOut = prevOut

C7_Witness ==
  /\ run > 1 /\ pc = "exit" /\ exitCode = 0 /\ ~args.overwrite /\ ~args.dry_run
  /\ args.outp = args.inp
  /\ Len(df) = MaxRows
  /\ curIn = prevOut
  /\ \A k \in 1..Len(df) : \A c \in DerivedCols \ {"annotation_notes"} :
       curIn.rows[k].d[c] # EmptyText
  /\ \E k \in 1..Len(df) : prevIn.rows[k].d["race_ml"] # EmptyText

\* C8: two runs that read the same input table with the same options and seed
\* write the same output table.
C8_Deterministic ==
  (run > 1 /\ pc = "exit" /\ curIn # NoFile /\ curIn = prevIn)
  => curOut = prevOut

C8_Witness ==
  /\ run > 1 /\ pc = "exit"
  /\ curIn # NoFile
  /\ curIn = prevIn
  /\ curOut # NoFile
  /\ curOut # curIn
  /\ Len(df) = MaxRows
  /\ \A k \in 1..Len(df) : filled[k] = DerivedCols

\* C9: a conf_skin the pass writes for a row whose bin the brightness strategy
\* did not produce lies in [0.5, 0.8].
C9_ConfSkinByStrategy ==
  \A k \in 1..Len(df) :
    ("conf_skin" \in filled[k] /\ binBy[k] # "brightness")
    => df[k].d["conf_skin"].n \in 500..800

\* a field step that leaves numpy's generator alone
NoNumpyDraw == pc \in FieldSteps => npPos' = npPos

\* which generator each field step draws from
DrawsByGenerator ==
  /\ (pc \in FieldSteps \ {"skin_tone_bin"}) => (npPos' = npPos /\ rngPos' >= rngPos)
  /\ pc = "skin_tone_bin"
     => /\ rngPos' = rngPos
        /\ npPos' = (IF "skin_tone_bin" \in filled'[i] /\ binBy'[i] = "random"
                     THEN npPos + 1 ELSE npPos)

InRange(v, r) == Min(r[1], r[2]) <= v /\ v <= Max(r[1], r[2])

\* C11: a conf_race the pass fills lies in the configured low range when the
\* row's prefer_not_to_label (pre-filled or freshly drawn) is 1; otherwise in
\* the mid range when its race_ml contains "|"; otherwise in the high range
\* or, when downgraded, in the low range.
C11_ConfRaceRange ==
  \A k \in 1..Len(df) :
    "conf_race" \in filled[k]
    => LET v == df[k].d["conf_race"].n
       IN IF EqOne(df[k].d["prefer_not_to_label"])
          THEN InRange(v, urange(args.lo_conf_range))
          ELSE IF HasPipe(PyStr(df[k].d["race_ml"]))
          THEN InRange(v, urange(args.mid_conf_range))
          ELSE \/ InRange(v, urange(args.hi_conf_range))
               \/ InRange(v, urange(args.lo_conf_range))

\* a row that came with prefer_not_to_label = 1, got a two-label race_ml and
\* a conf_race of the low range that the mid range does not hold
C11_Witness ==
  \E k \in 1..Len(df) :
    /\ "conf_race" \in filled[k]
    /\ "prefer_not_to_label" \notin filled[k]
    /\ EqOne(df[k].d["prefer_not_to_label"])
    /\ HasPipe(PyStr(df[k].d["race_ml"]))
    /\ InRange(df[k].d["conf_race"].n, urange(args.lo_conf_range))
    /\ ~InRange(df[k].d["conf_race"].n, urange(args.mid_conf_range))

\* the conf_race cell holds a number below the threshold t
BelowThreshold(c, t) ==
  (c.t = "float" /\ c.n < t) \/ (c.t = "int" /\ 1000 * c.n < t)

\* the step that fills unknown_uncertain of the current row
UncertainByThresholdOrDraw ==
  (pc = "unknown_uncertain" /\ "unknown_uncertain" \in filled'[i])
  => IF BelowThreshold(df[i].d["conf_race"], args.lowconf_threshold)
     THEN df'[i].d["unknown_uncertain"] = IntCell(1)
     ELSE /\ rngPos' = rngPos + 1
          /\ df'[i].d["unknown_uncertain"]
               = IntCell(IF Random(args.seed, rngPos) < args.uncertain_rate
                         THEN 1 ELSE 0)

\* C12: when the pass fills unknown_uncertain for a row whose conf_race
\* (pre-filled or freshly computed) is below the low-confidence threshold it
\* sets it to 1 whatever the draws; when conf_race is not below the threshold
\* the flag is 1 exactly when the uncertain-rate draw succeeds, else 0.
C12_UnknownUncertain == [][UncertainByThresholdOrDraw]_vars

\* with uncertain-rate 0 no draw succeeds, and a row whose fresh conf_race is
\* below the threshold still has the flag the pass filled at 1, next to a row
\* at or above the threshold with the flag at 0
C12_Witness ==
  /\ args.uncertain_rate = 0
  /\ \E k \in 1..Len(df) :
       /\ {"conf_race", "unknown_uncertain"} \subseteq filled[k]
       /\ BelowThreshold(df[k].d["conf_race"], args.lowconf_threshold)
       /\ df[k].d["unknown_uncertain"] = IntCell(1)
  /\ \E k \in 1..Len(df) :
       /\ "unknown_uncertain" \in filled[k]
       /\ ~BelowThreshold(df[k].d["conf_race"], args.lowconf_threshold)
       /\ df[k].d["unknown_uncertain"] = IntCell(0)

\* C13: conf_race, conf_gender and conf_skin of every row the pass filled lie
\* in [0.0, 1.0], under any range strings the option parser accepts.
C13_ConfInUnit ==
  \A k \in 1..Len(df) :
    \A c \in {"conf_race", "conf_gender", "conf_skin"} :
      c \in filled[k] => df[k].d[c].n \in 0..1000

\* the values cultural_markers may take: "none", or the tags present, each
\* once, in alphabetical order
MarkerValues ==
  { <<"none">>, <<"beard">>, <<"piercing_visible">>, <<"religious_headwear">>,
    <<"beard", "piercing_visible">>, <<"beard", "religious_headwear">>,
    <<"piercing_visible", "religious_headwear">>,
    <<"beard", "piercing_visible", "religious_headwear">> }

\* C14: a cultural_markers the pass fills is never empty: it is exactly "none"
\* or a non-empty, alphabetically sorted, "|"-joined list of distinct tags
\* from {beard, piercing_visible, religious_headwear}; "none" never appears
\* with another tag.
C14_MarkersWellFormed ==
  \A k \in 1..Len(df) :
    "cultural_markers" \in filled[k]
    => /\ df[k].d["cultural_markers"].t = "str"
       /\ df[k].d["cultural_markers"].s \in MarkerValues

C14_Witness ==
  \E k \in 1..Len(df) :
    /\ "cultural_markers" \in filled[k]
    /\ df[k].d["cultural_markers"] = StrCell(<<"piercing_visible", "religious_headwear">>)

\* C15: religious_headwear is only attached to rows whose race_cat is
\* MiddleEastern or SouthAsian and beard only to rows whose gender_cat is male
\* (lower-cased, "male" or "m"); so a row with race_cat Black gets "none" or
\* tags from {beard, piercing_visible}.
C15_MarkersConditioned ==
  \A k \in 1..Len(df) :
    "cultural_markers" \in filled[k]
    => LET tags == Range(df[k].d["cultural_markers"].s)
       IN /\ "religious_headwear" \in tags
             => df[k].race_cat \in {"MiddleEastern", "SouthAsian"}
          /\ "beard" \in tags => Lower(df[k].gender_cat) \in {"male", "m"}
          /\ df[k].race_cat = "Black"
             => (tags = {"none"} \/ tags \subseteq {"beard", "piercing_visible"})

\* with every trigger firing, a Black male row has beard and piercing_visible
\* but no headwear, and a row that is neither male nor MiddleEastern or
\* SouthAsian has piercing_visible alone
C15_Witness ==
  /\ args.marker_rate = 1000
  /\ \E k \in 1..Len(df) :
       /\ df[k].race_cat = "Black"
       /\ "cultural_markers" \in filled[k]
       /\ df[k].d["cultural_markers"] = StrCell(<<"beard", "piercing_visible">>)
  /\ \E k \in 1..Len(df) :
       /\ df[k].race_cat = "Indian"
       /\ "cultural_markers" \in filled[k]
       /\ df[k].d["cultural_markers"] = StrCell(<<"piercing_visible">>)

\* C16: with skin-tone-method = brightness, a row whose image path resolves
\* under no root, whose image does not decode, or that is processed without
\* the image library still receives a skin_tone_bin from the random strategy:
\* the skin-tone step raises no error, the run is not aborted there and a
\* completed run has filled the bin of every row that came with a blank one.
C16_BrightnessFallsBack ==
  args.skin_tone_method = "brightness"
  => /\ "TypeError: Path" \notin stdout
     /\ "ValueError: np.random.choice" \notin stdout
     /\ (pc = "exit" /\ exitCode = 0)
        => \A k \in 1..Len(df) :
             IsBlank(InputCell(k, "skin_tone_bin"))
             => "skin_tone_bin" \in filled[k]

\* a step that changes the file system is taken after the loop has been
\* through every row and the summary has been printed; a step that ends the
\* run with a traceback changes no file
WritesOnlyAtEnd ==
  /\ files' # files
     => /\ pc = "save"
        /\ i = Len(df)
        /\ "ETHICAL METADATA STATISTICS" \in stdout
        /\ "Traceback" \notin stdout
  /\ "Traceback" \in stdout' => files' = files

\* C17: the output is all-or-nothing: the table is written only after every
\* row has been processed, and a run that aborts with an error while loading,
\* processing a row or printing the summary has written nothing to the output
\* path.
C17_AllOrNothing == [][WritesOnlyAtEnd]_vars

\* a first run that aborted at its second row, after filling the first, with
\* the output path (the input path) still holding the table it read
C17_Witness ==
  /\ run = 1
  /\ pc = "exit"
  /\ "Traceback" \in stdout
  /\ i = 2
  /\ filled[1] = DerivedCols
  /\ args.outp = args.inp
  /\ files[args.outp] = curIn
  /\ curOut = NoFile

\* a step of a dry run changes nothing on the file system; the step after the
\* summary finds every blank field of every row computed, prints the dry-run
\* notice and ends the run with status 0
DryRunWritesNothing ==
  args.dry_run
  => /\ files' = files
     /\ pc = "save"
        => /\ "ETHICAL METADATA STATISTICS" \in stdout
           /\ \A k \in 1..Len(df) : \A c \in DerivedCols :
                IsBlank(InputCell(k, c)) => c \in filled[k]
           /\ "DRY RUN MODE - NO FILES WRITTEN" \in stdout'
           /\ exitCode' = 0

\* C18: in dry-run mode the pass computes every field and prints the summary
\* but writes nothing: the output file is neither created nor modified and the
\* output directory is not created.
C18_DryRun == [][DryRunWritesNothing]_vars

\* a second dry run with an output path in a directory that does not exist
\* has ended: every field of every row was computed, and neither the
\* directory nor the output file exists
C18_Witness ==
  /\ args.dry_run
  /\ args.outp = "out/labels_v3.csv"
  /\ run > 1
  /\ pc = "exit"
  /\ exitCode = 0
  /\ Len(df) = MaxRows
  /\ \A k \in 1..Len(df) : filled[k] = DerivedCols
  /\ ~files[Parent(args.outp)].exists
  /\ ~files[args.outp].exists

\* the non-derived part of a row of a file
FileBase(r) ==
  [race_cat |-> r.race_cat, gender_cat |-> r.gender_cat,
   rel_path |-> r.rel_path, extra |-> r.extra]

C20_MissingInputAborts ==
  ~files[args.inp].exists
  => /\ df = <<>>
     /\ i = 0
     /\ curIn = NoFile
     /\ \A p \in Paths : ~files[p].exists
     /\ pc = "exit"
        => /\ exitCode = 1
           /\ {"FileNotFoundError", "Error"} \subseteq stdout

C20_Witness ==
  /\ ~files[args.inp].exists
  /\ pc = "exit"
  /\ exitCode = 1
  /\ "FileNotFoundError" \in stdout
  /\ ~files[args.outp].exists

\* C21: for every readable input table, a table with a header and zero rows
\* included, the pass prints the per-field tally and the aggregate statistics
\* without raising an error and then, unless in dry-run mode, writes the
\* output table (stated for the random strategy with the default 7 bins).
C21_SummaryForEveryTable ==
  (pc = "exit" /\ Loaded # NoFile /\ env.writable
     /\ args.skin_tone_method = "random" /\ args.skin_bins = 7)
  => /\ "Traceback" \notin stdout
     /\ {"AUTO-FILL SUMMARY", "ETHICAL METADATA STATISTICS"} \subseteq stdout
     /\ exitCode = 0
     /\ ~args.dry_run => curOut # NoFile

\* the order of the three markers in a note
NoteOrder ==
  <<"auto: multi-heritage heuristic", "auto: low confidence / uncertain",
    "auto: prefer-not-to-label set">>

\* C22: an annotation_notes the pass fills is the "; "-joined list, in this
\* order, of the multi-heritage marker iff the row's race_ml contains "|", the
\* low-confidence marker iff its unknown_uncertain is 1 and the
\* prefer-not-to-label marker iff its prefer_not_to_label is 1, with the
\* values the row has after the earlier steps; it is empty iff none applies.
C22_NotesFromFlags ==
  \A k \in 1..Len(df) :
    "annotation_notes" \in filled[k]
    => LET note == df[k].d["annotation_notes"]
           on == <<HasPipe(PyStr(df[k].d["race_ml"])),
                   EqOne(df[k].d["unknown_uncertain"]),
                   EqOne(df[k].d["prefer_not_to_label"])>>
       IN /\ note.t = "str"
          /\ \A m \in 1..3 : (NoteOrder[m] \in Range(note.s)) <=> on[m]
          /\ Len(note.s) = Cardinality({m \in 1..3 : on[m]})
          /\ \A a, b \in 1..Len(note.s) :
               a < b => \E m, n \in 1..3 :
                          m < n /\ note.s[a] = NoteOrder[m] /\ note.s[b] = NoteOrder[n]
          /\ (note.s = <<>>) <=> (\A m \in 1..3 : ~on[m])

\* a row the pass gave all three markers, with flags it set itself
C22_Witness ==
  \E k \in 1..Len(df) :
    /\ filled[k] = DerivedCols
    /\ df[k].d["annotation_notes"] = StrCell(NoteOrder)

\* a and b are one of the configured adjacent pairs, in either order
Adjacent(a, b) ==
  <<a, b>> \in Range(ADJACENT_PAIRS) \/ <<b, a>> \in Range(ADJACENT_PAIRS)

\* C23: choose_multilabel returns the base label unchanged or "base|neighbor"
\* with (base, neighbor) one of the adjacent pairs in either order and
\* neighbor different from base; a base label that is in no adjacent pair or
\* is not a known category is returned unchanged, for every ambiguous-rate
\* and every draw.
C23_ChooseMultilabel ==
  (call.fn = "choose_multilabel" /\ ret.done)
  => LET b == call.base_label
         v == ret.v
     IN /\ \/ v = Parts(b)
           \/ Len(v) = 2 /\ v[1] = b /\ v[2] # b /\ Adjacent(b, v[2])
        /\ (b \notin Range(FF_CLASSES)
              \/ ~\E x \in Range(FF_CLASSES) : Adjacent(b, x))
           => v = Parts(b)

\* a call that returned the base label with a neighbour listed before it in
\* the pair, and the base label is not the first in alphabetical order
C23_Witness ==
  /\ call.fn = "choose_multilabel"
  /\ ret.done
  /\ call.base_label = "MiddleEastern"
  /\ ret.v = <<"MiddleEastern", "Latino">>

\* the non-derived columns of a table, row by row
BaseOf(file) == [k \in 1..Len(file.rows) |-> FileBase(file.rows[k])]

BlankRowStep ==
  /\ pc \in FieldSteps
  /\ pc' # "exit"
  /\ args.skin_tone_method = "random"
  /\ \A c \in DerivedCols : IsBlank(row.d[c])

\* the draws a step takes, from either generator
DrawsTaken == (rngPos' - rngPos) + (npPos' - npPos)

\* one draw per drawing field, at most three for the markers
OneDrawPerField ==
  BlankRowStep
  => /\ pc \in {"race_ml", "prefer_not_to_label", "conf_race", "unknown_uncertain",
                 "skin_tone_bin", "conf_skin", "conf_gender"}
        => DrawsTaken = 1
     /\ pc = "cultural_markers" => DrawsTaken \in 0..3

\* C25 (as claimed): for a row whose derived fields are all blank, under the
\* random skin-tone strategy, every drawing field consumes exactly one draw
\* (the cultural markers at most three), whatever the row's race and the
\* values drawn.
C25_OneDrawPerField == [][OneDrawPerField]_vars

\* the draws of each field of such a row
DrawsPerField ==
  BlankRowStep
  => /\ pc = "race_ml"
        => DrawsTaken = (IF row.race_cat \notin Range(FF_CLASSES)
                            \/ ~\E x \in Range(FF_CLASSES) : Adjacent(row.race_cat, x)
                         THEN 0
                         ELSE IF HasPipe(ml') THEN 2 ELSE 1)
     /\ pc \in {"prefer_not_to_label", "conf_skin", "conf_gender"}
        => (rngPos' = rngPos + 1 /\ npPos' = npPos)
     /\ pc = "conf_race"
        => DrawsTaken = (IF EqOne(df[i].d["prefer_not_to_label"]) \/ HasPipe(ml)
                         THEN 1 ELSE 2)
     /\ pc = "unknown_uncertain"
        => DrawsTaken = (IF BelowThreshold(df[i].d["conf_race"], args.lowconf_threshold)
                         THEN 0 ELSE 1)
     /\ pc = "cultural_markers"
        => DrawsTaken = 1 + (IF row.race_cat \in {"MiddleEastern", "SouthAsian"}
                             THEN 1 ELSE 0)
                          + (IF Lower(row.gender_cat) \in {"male", "m"} THEN 1 ELSE 0)
     /\ pc = "skin_tone_bin" => (npPos' = npPos + 1 /\ rngPos' = rngPos)
     /\ pc \in {"ambiguous_mixed", "annotation_notes"} => DrawsTaken = 0

\* C25 (amended): for such a row the number of draws of a field depends on
\* the row and on the values drawn: the multi-label choice takes none when
\* the race is unknown or in no adjacent pair, else one, and a second when
\* the first makes the row multi-label; race confidence takes one when the
\* preference flag is 1 or the row is multi-label, else two; the uncertainty
\* flag takes none when conf_race is below the threshold, else one; the
\* cultural markers take one, plus one for a MiddleEastern or SouthAsian row,
\* plus one for a male row; the preference flag, skin confidence and gender
\* confidence take one each, and the skin-tone bin one from numpy's generator.
C25_DrawsPerField == [][DrawsPerField]_vars

\* a MiddleEastern row that came blank has been through every field: the
\* multi-label choice took two draws and the row took eight or nine in all
C25_Witness ==
  /\ args.skin_tone_method = "random"
  /\ pc = "iterrows"
  /\ run = 1
  /\ i = 1
  /\ filled[1] = DerivedCols
  /\ \A c \in DerivedCols : IsBlank(InputCell(1, c))
  /\ df[1].race_cat = "MiddleEastern"
  /\ HasPipe(PyStr(df[1].d["race_ml"]))
  /\ ~EqOne(df[1].d["prefer_not_to_label"])
  /\ npPos = 1
  /\ rngPos = 2 + 1 + 1 + 2 + 1 + 1
                + (IF BelowThreshold(df[1].d["conf_race"], args.lowconf_threshold)
                   THEN 0 ELSE 1)

\* in fill-blanks mode the step of a field that is not blank leaves both
\* generators and the DataFrame as they are
FilledFieldDrawsNothing ==
  (~args.overwrite /\ pc \in FieldSteps /\ ~IsBlank(row.d[pc]))
  => /\ rngPos' = rngPos
     /\ npPos' = npPos
     /\ df' = df

\* C26: in fill-blanks mode a field that is already filled consumes no random
\* draw, so a row all of whose derived fields are filled leaves the state of
\* the generators as it found it and the later rows get the values they would
\* get without that row.
C26_FilledFieldDrawsNothing == [][FilledFieldDrawsNothing]_vars

\* a fill-blanks run over a table of MaxRows rows with every derived field
\* filled has ended with both generators where they started
C26_Witness ==
  /\ ~args.overwrite
  /\ pc = "exit"
  /\ exitCode = 0
  /\ Len(df) = MaxRows
  /\ \A k \in 1..Len(df) : \A c \in DerivedCols \ {"annotation_notes"} :
       Populated(InputCell(k, c))
  /\ \A k \in 1..Len(df) : filled[k] = {}
  /\ rngPos = 0
  /\ npPos = 0

\* C27: the downgrade to the low range happens exactly when a Bernoulli draw
\* with probability uncertain-rate succeeds, with the boundary convention of
\* the uncertainty flag (draw < rate); so with uncertain-rate = 0 a conf_race
\* the pass fills for a row with prefer_not_to_label not 1 and a single-label
\* race_ml is from the high range, for every value of the draw.
C27_NoDowngradeAtRateZero ==
  \A k \in 1..Len(df) :
    ("conf_race" \in filled[k] /\ args.uncertain_rate = 0
       /\ ~EqOne(df[k].d["prefer_not_to_label"])
       /\ ~HasPipe(PyStr(df[k].d["race_ml"])))
    => InRange(df[k].d["conf_race"].n, urange(args.hi_conf_range))

\* C28: for a decodable image at least 10 pixels wide and high and bins >= 1,
\* brightness_to_bin returns min(bins, floor(brightness * bins) + 1) with
\* brightness the mean luminance of the central crop over 255, a value in
\* 1..bins (maximal brightness gives bins); for an image that does not decode
\* or is smaller than 10 pixels in a dimension it returns no bin.
C28_BrightnessToBin ==
  (call.fn = "brightness_to_bin" /\ ret.done /\ call.pil_ok)
  => IF ImageLuma(call.img_path) >= 0
        /\ ImageSize(call.img_path)[1] >= 10 /\ ImageSize(call.img_path)[2] >= 10
     THEN /\ ret.v \in 1..call.bins
          /\ \E k \in 0..call.bins :
               /\ 255 * k <= ImageLuma(call.img_path) * call.bins
               /\ ImageLuma(call.img_path) * call.bins < 255 * (k + 1)
               /\ ret.v = (IF k + 1 > call.bins THEN call.bins ELSE k + 1)
     ELSE ret.v = 0

\* an image of maximal brightness has been put in bin bins = 7
C28_Witness ==
  /\ call.fn = "brightness_to_bin"
  /\ ret.done
  /\ call.pil_ok
  /\ ImageLuma(call.img_path) = 255
  /\ call.bins = 7
  /\ ret.v = 7

\* the positions at which both columns have a value, and those among them at
\* which the values are equal or are both multi-label with the same set of
\* categories
PairsPresent(manual, heuristic) ==
  {j \in 1..Min(Len(manual), Len(heuristic)) :
     manual[j] # NanCell /\ heuristic[j] # NanCell}
PairsAgreeing(manual, heuristic) ==
  {j \in PairsPresent(manual, heuristic) :
     \/ manual[j].s = heuristic[j].s
     \/ /\ Len(manual[j].s) > 1
        /\ Len(heuristic[j].s) > 1
        /\ {manual[j].s[a] : a \in 1..Len(manual[j].s)}
             = {heuristic[j].s[a] : a \in 1..Len(heuristic[j].s)}}

\* C29: for the race_ml column calculate_agreement counts a pair as agreeing
\* iff both values are present and they are equal or both multi-label with
\* the same set of categories in any order; it returns the agreements over
\* the number of pairs with both values present, a value in [0, 1], and 0 when
\* no pair has both values present.
C29_CalculateAgreement ==
  (call.fn = "calculate_agreement" /\ call.column = "race_ml" /\ ret.done)
  => LET present == Cardinality(PairsPresent(call.manual, call.heuristic))
         agreeing == Cardinality(PairsAgreeing(call.manual, call.heuristic))
     IN /\ ret.v.den > 0
        /\ 0 <= ret.v.num /\ ret.v.num <= ret.v.den
        /\ IF present = 0
           THEN ret.v.num = 0
           ELSE ret.v.num * present = agreeing * ret.v.den

\* "A|B" against "B|A" and an equal pair agree, a pair with a missing value is
\* left out: the rate is 1
C29_Witness ==
  /\ call.fn = "calculate_agreement"
  /\ call.column = "race_ml"
  /\ ret.done
  /\ call.manual = <<StrCell(<<"A", "B">>), NanCell>>
  /\ call.heuristic = <<StrCell(<<"B", "A">>), StrCell(<<"A">>)>>
  /\ ret.v.num = 1
  /\ ret.v.den = 1

====
